---- MODULE Spec2Model ----
(***************************************************************************)
(* The message server of the virtualgroup module                           *)
(* (x/virtualgroup/keeper/msg_server.go): global virtual groups (GVGs),    *)
(* their families, the per-SP statistics, the escrowed deposits and the    *)
(* storage provider exit protocol.                                         *)
(*                                                                         *)
(* Every handler runs inside one transaction: a handler that returns an    *)
(* error (or panics) leaves the stores and the bank untouched.  The        *)
(* variable last records the outcome of the most recent request.           *)
(***************************************************************************)
EXTENDS Integers, Sequences, FiniteSets, TLC

(* ------------------------------ bounds --------------------------------- *)
NumSP == 2            \* storage providers registered at genesis, ids 1..NumSP
MaxGVG == 2           \* groups created in one behaviour
MaxSecLen == 2        \* longest secondary SP list of a create request
MaxAmount == 2        \* largest coin amount of a request
MaxStoredSize == 1    \* largest stored size the storage module reports
MaxParam == 2         \* largest value of a module parameter
MaxBreak == 1         \* largest redundancy-break counter
MaxTotalDeposit == 3  \* largest recorded TotalDeposit of a group

(* ------------------------- program constants --------------------------- *)
NoSpecifiedFamilyId == 0

SpIds == 1..NumSP
MissingSpId == NumSP + 1      \* an SP id the registry does not know
NoAddr == 0                   \* an address that belongs to no SP
Addrs == {NoAddr} \cup SpIds  \* operator/funding addresses, named by their SP
Upgrades == {"Pampas", "Manchurian", "Hulunbeier"}
Authority == "gov"
Authorities == {"gov", "other"}

STATUS_IN_SERVICE == "IN_SERVICE"
STATUS_IN_MAINTENANCE == "IN_MAINTENANCE"
STATUS_GRACEFUL_EXITING == "GRACEFUL_EXITING"
STATUS_FORCED_EXITING == "FORCED_EXITING"

VARIABLES
    sps,           \* SP registry: id -> [status, totalDeposit]
    gvgs,          \* group store: id -> GlobalVirtualGroup
    families,      \* family store: id -> GlobalVirtualGroupFamily
    stats,         \* statistics ledger: sp id -> GVGStatisticsWithinSP
    bank,          \* balances: [vg (module pool), spmod, gov, fund[sp]]
    upgraded,      \* the upgrades that are active
    params,        \* module parameters
    nextGVGID,     \* GVG id sequence
    nextFamilyID,  \* family id sequence
    swapOutInfos,  \* pending swap-outs: set of SwapOutInfo records
    swapInInfos,   \* pending swap-in reservations: set of SwapInInfo records
    blockTime,     \* ctx.BlockTime().Unix()
    last           \* the most recent request and its outcome

vars == <<sps, gvgs, families, stats, bank, upgraded, params, nextGVGID, nextFamilyID,
          swapOutInfos, swapInInfos, blockTime, last>>

store == <<sps, gvgs, families, stats, bank, nextGVGID, nextFamilyID>>
config == <<upgraded, params>>
swaps == <<swapOutInfos, swapInInfos, blockTime>>

(* ------------------------------ helpers -------------------------------- *)
IsUpgraded(name) == name \in upgraded

Range(s) == {s[i] : i \in 1..Len(s)}

RECURSIVE SumOver(_, _)
SumOver(f, S) ==
    IF S = {} THEN 0
    ELSE LET x == CHOOSE y \in S : TRUE IN f[x] + SumOver(f, S \ {x})

SeqsUpTo(S, n) == UNION {[1..k -> S] : k \in 0..n}

\* The outcome of a request: who sent it (by), the entity it names (id), the
\* tokens it moved (amount) to which account (to), and the events it emitted.
Result(op, err, by, id, amount, to, events) ==
    [op |-> op, err |-> err, by |-> by, id |-> id, amount |-> amount, to |-> to,
     events |-> events]

Fail(op, err, by, id) == Result(op, err, by, id, 0, "none", <<>>)

(* sp keeper *)
GetStorageProviderByOperatorAddr(addr) == addr \in DOMAIN sps

GetStorageProvider(id) == id \in DOMAIN sps

IsInService(sp) == sp.status = STATUS_IN_SERVICE

IsInMaintenance(sp) == sp.status = STATUS_IN_MAINTENANCE

(* bank keeper: a transfer fails when the sender holds less than the amount *)
CanSend(balance, amount) == balance >= amount

(* params keeper *)
ExpectSecondarySPNum == 1     \* storageKeeper.GetExpectSecondarySPNumForECObject

MaxGlobalVirtualGroupNumPerFamily == params.MaxGlobalVirtualGroupNumPerFamily

SpConcurrentExitNum == params.SpConcurrentExitNum

SwapInValidityPeriod == params.SwapInValidityPeriod

(* ------------------------- statistics ledger --------------------------- *)
EmptyStat == [PrimaryCount |-> 0, SecondaryCount |-> 0, BreakRedundancyReqmtGvgCount |-> 0]

\* Reads the stored counters of an SP into a fresh record (zero when none is stored).
GetOrCreateGVGStatisticsWithinSP(spId) ==
    IF spId \in DOMAIN stats THEN stats[spId] ELSE EmptyStat

Put(f, k, v) == [x \in DOMAIN f \cup {k} |-> IF x = k THEN v ELSE f[x]]

\* Writes the records in list order: a later record of the same SP replaces an earlier one.
RECURSIVE BatchSetGVGStatisticsWithinSP(_, _)
BatchSetGVGStatisticsWithinSP(st, list) ==
    IF list = <<>> THEN st
    ELSE BatchSetGVGStatisticsWithinSP(Put(st, Head(list).id, Head(list).stat), Tail(list))

(* ------------------------ CreateGlobalVirtualGroup --------------------- *)
HasDuplicate(ids) == \E i, j \in 1..Len(ids) : i < j /\ ids[i] = ids[j]

\* The Pampas validation of the secondary SP list.
CheckSecondarySpIds(ids) ==
    IF ~IsUpgraded("Pampas") THEN "OK"
    ELSE IF Len(ids) # ExpectSecondarySPNum THEN "ErrInvalidSecondarySPCount"
    ELSE IF HasDuplicate(ids) THEN "ErrDuplicateSecondarySP"
    ELSE "OK"

\* stat := GetOrCreate(sp.Id); stat.PrimaryCount++
PrimaryStat(spId) ==
    [id |-> spId,
     stat |-> [GetOrCreateGVGStatisticsWithinSP(spId) EXCEPT !.PrimaryCount = @ + 1]]

\* One fresh record per secondary slot, its SecondaryCount incremented.
SecondaryStats(ids) ==
    [i \in 1..Len(ids) |->
        [id |-> ids[i],
         stat |-> [GetOrCreateGVGStatisticsWithinSP(ids[i]) EXCEPT !.SecondaryCount = @ + 1]]]

\* The loop over the requested secondary SPs: the first SP that is missing or
\* neither in service nor in maintenance decides the error.
RECURSIVE CheckSecondarySPs(_)
CheckSecondarySPs(ids) ==
    IF ids = <<>> THEN "OK"
    ELSE IF ~GetStorageProvider(Head(ids)) THEN "ErrStorageProviderNotFound"
    ELSE IF ~IsInService(sps[Head(ids)]) /\ ~IsInMaintenance(sps[Head(ids)])
         THEN "ErrStorageProviderNotInService"
    ELSE CheckSecondarySPs(Tail(ids))

\* Family Manager: a new empty family for the unspecified id, else the stored
\* family, which must exist and be owned by primarySpId.
GetOrCreateEmptyGVGFamily(familyId, primarySpId) ==
    IF familyId = NoSpecifiedFamilyId
    THEN [err |-> "OK",
          family |-> [Id |-> nextFamilyID, PrimarySpId |-> primarySpId,
                      GlobalVirtualGroupIds |-> <<>>]]
    ELSE IF familyId \notin DOMAIN families
    THEN [err |-> "ErrGVGFamilyNotExist", family |-> <<>>]
    ELSE IF families[familyId].PrimarySpId # primarySpId
    THEN [err |-> "ErrFamilyPrimaryMismatch", family |-> <<>>]
    ELSE [err |-> "OK", family |-> families[familyId]]

\* The inner loop of the duplicate guard, from index i (1-based) of the stored
\* list: "panic" is the index-out-of-range on secondarySpIds[i].
RECURSIVE ScanSecondarySpIds(_, _, _)
ScanSecondarySpIds(stored, requested, i) ==
    IF i > Len(stored) THEN "OK"
    ELSE IF i > Len(requested) THEN "panic"
    ELSE IF stored[i] # requested[i] THEN "OK"
    ELSE IF i = Len(requested) THEN "ErrDuplicateGVG"
    ELSE ScanSecondarySpIds(stored, requested, i + 1)

\* The outer loop of the duplicate guard over the family's group ids.
RECURSIVE CheckDuplicateGVG(_, _)
CheckDuplicateGVG(gvgIds, requested) ==
    IF gvgIds = <<>> THEN "OK"
    ELSE IF Head(gvgIds) \notin DOMAIN gvgs THEN "ErrGVGNotExist"
    ELSE LET r == ScanSecondarySpIds(gvgs[Head(gvgIds)].SecondarySpIds, requested, 1)
         IN IF r # "OK" THEN r ELSE CheckDuplicateGVG(Tail(gvgIds), requested)

\* "Each family supports only a limited number of GVGS"
FamilyLimitExceeded(family) ==
    MaxGlobalVirtualGroupNumPerFamily < Len(family.GlobalVirtualGroupIds)

\* The group record with the family id taken from the group id sequence.
NewGVGFamilyFromGroupId(gvgID, family, spId, secondarySpIds, deposit) ==
    [Id |-> gvgID, FamilyId |-> gvgID, PrimarySpId |-> spId,
     SecondarySpIds |-> secondarySpIds, StoredSize |-> 0, TotalDeposit |-> deposit]

NewGVG(gvgID, family, spId, secondarySpIds, deposit) ==
    [Id |-> gvgID, FamilyId |-> family.Id, PrimarySpId |-> spId,
     SecondarySpIds |-> secondarySpIds, StoredSize |-> 0, TotalDeposit |-> deposit]

AppendGVG(family, gvgID) ==
    [family EXCEPT !.GlobalVirtualGroupIds = Append(@, gvgID)]

\* CreateEvents with the family event emitted for every request.
CreateEventsAlwaysFamily(req, gvg, family) ==
    <<[type |-> "EventCreateGlobalVirtualGroup", Id |-> gvg.Id, FamilyId |-> gvg.FamilyId,
       PrimarySpId |-> gvg.PrimarySpId, SecondarySpIds |-> gvg.SecondarySpIds,
       TotalDeposit |-> gvg.TotalDeposit]>>
    \o <<[type |-> "EventCreateGlobalVirtualGroupFamily", Id |-> family.Id,
          PrimarySpId |-> family.PrimarySpId]>>

CreateEvents(req, gvg, family) ==
    <<[type |-> "EventCreateGlobalVirtualGroup", Id |-> gvg.Id, FamilyId |-> gvg.FamilyId,
       PrimarySpId |-> gvg.PrimarySpId, SecondarySpIds |-> gvg.SecondarySpIds,
       TotalDeposit |-> gvg.TotalDeposit]>>
    \o (IF req.familyId = NoSpecifiedFamilyId
        THEN <<[type |-> "EventCreateGlobalVirtualGroupFamily", Id |-> family.Id,
                PrimarySpId |-> family.PrimarySpId]>>
        ELSE <<>>)

\* The error the handler returns for req in the current state ("OK": none).
CreateError(req) ==
    LET fam == GetOrCreateEmptyGVGFamily(req.familyId, req.sp)
        dup == IF IsUpgraded("Manchurian")
               THEN CheckDuplicateGVG(fam.family.GlobalVirtualGroupIds, req.secondarySpIds)
               ELSE "OK"
    IN  IF CheckSecondarySpIds(req.secondarySpIds) # "OK"
        THEN CheckSecondarySpIds(req.secondarySpIds)
        ELSE IF ~GetStorageProviderByOperatorAddr(req.sp) THEN "ErrStorageProviderNotFound"
        ELSE IF ~IsInService(sps[req.sp]) /\ ~IsInMaintenance(sps[req.sp])
             THEN "ErrStorageProviderNotInService"
        ELSE IF CheckSecondarySPs(req.secondarySpIds) # "OK"
             THEN CheckSecondarySPs(req.secondarySpIds)
        ELSE IF fam.err # "OK" THEN fam.err
        ELSE IF dup # "OK" THEN dup
        ELSE IF FamilyLimitExceeded(fam.family) THEN "ErrLimitationExceed"
        ELSE IF ~CanSend(bank.fund[req.sp], req.deposit) THEN "ErrInsufficientFunds"
        ELSE "OK"

CreateGlobalVirtualGroup(req) ==
    /\ nextGVGID <= MaxGVG
    /\ LET err == CreateError(req) IN
       IF err # "OK"
       THEN /\ last' = Fail("CreateGlobalVirtualGroup", err, req.sp, 0)
            /\ UNCHANGED <<store, config, swaps>>
       ELSE LET fam == GetOrCreateEmptyGVGFamily(req.familyId, req.sp).family
                gvg == NewGVG(nextGVGID, fam, req.sp, req.secondarySpIds, req.deposit)
                statList == <<PrimaryStat(req.sp)>> \o SecondaryStats(req.secondarySpIds)
            IN  /\ bank' = [bank EXCEPT !.fund[req.sp] = @ - req.deposit,
                                        !.vg = @ + req.deposit]
                /\ nextGVGID' = nextGVGID + 1
                /\ nextFamilyID' = IF req.familyId = NoSpecifiedFamilyId
                                   THEN nextFamilyID + 1 ELSE nextFamilyID
                /\ gvgs' = Put(gvgs, gvg.Id, gvg)
                /\ families' = Put(families, fam.Id, AppendGVG(fam, gvg.Id))
                /\ stats' = BatchSetGVGStatisticsWithinSP(stats, statList)
                /\ last' = Result("CreateGlobalVirtualGroup", "OK", req.sp, gvg.Id, req.deposit,
                                  "vg", CreateEvents(req, gvg, fam))
                /\ UNCHANGED <<sps, config, swaps>>

(* --------------------------- Deposit / Withdraw ------------------------ *)
DepositDenomForGVG == "BNB"

Denoms == {"BNB", "other"}

GVGStakingPerBytes == 1

\* Deposit Ledger: total deposit less the stake the stored size requires.
GetAvailableStakingTokens(gvg) == gvg.TotalDeposit - GVGStakingPerBytes * gvg.StoredSize

TokenReqs == [addr : Addrs, gvgId : 1..MaxGVG, denom : Denoms, amount : 0..MaxAmount]

DepositEvent(gvg) ==
    <<[type |-> "EventUpdateGlobalVirtualGroup", Id |-> gvg.Id,
       PrimarySpId |-> gvg.PrimarySpId, StoreSize |-> gvg.StoredSize,
       TotalDeposit |-> gvg.TotalDeposit, SecondarySpIds |-> gvg.SecondarySpIds]>>

WithdrawEvent(gvg) ==
    <<[type |-> "EventUpdateGlobalVirtualGroup", Id |-> gvg.Id,
       StoreSize |-> gvg.StoredSize, TotalDeposit |-> gvg.TotalDeposit]>>

DepositError(req) ==
    IF ~GetStorageProviderByOperatorAddr(req.addr) THEN "ErrStorageProviderNotFound"
    ELSE IF req.gvgId \notin DOMAIN gvgs THEN "ErrGVGNotExist"
    ELSE IF DepositDenomForGVG # req.denom THEN "ErrInvalidDenom"
    ELSE IF ~CanSend(bank.fund[req.addr], req.amount) THEN "ErrInsufficientFunds"
    ELSE "OK"

\* The deposit that is escrowed but never recorded on the group.
DepositedGVGNotRecorded(gvg, amount) == gvg

\* gvg.TotalDeposit = gvg.TotalDeposit.Add(req.Deposit.Amount); k.SetGVG(ctx, gvg)
DepositedGVG(gvg, amount) == [gvg EXCEPT !.TotalDeposit = @ + amount]

Deposit(req) ==
    LET err == DepositError(req) IN
    IF err # "OK"
    THEN /\ last' = Fail("Deposit", err, req.addr, req.gvgId)
         /\ UNCHANGED <<store, config, swaps>>
    ELSE LET gvg == DepositedGVG(gvgs[req.gvgId], req.amount)
         IN  /\ bank' = [bank EXCEPT !.fund[req.addr] = @ - req.amount, !.vg = @ + req.amount]
             /\ gvgs' = [gvgs EXCEPT ![req.gvgId] = gvg]
             /\ last' = Result("Deposit", "OK", req.addr, req.gvgId, req.amount, "vg",
                               DepositEvent(gvg))
             /\ UNCHANGED <<sps, families, stats, nextGVGID, nextFamilyID, config, swaps>>

\* The amount a withdraw request moves: all that is available for amount 0.
WithdrawTokens(gvg, amount) ==
    IF amount = 0 THEN GetAvailableStakingTokens(gvg) ELSE amount

\* The checks with negative available tokens reported as a returned error.
WithdrawErrorNegativeReturned(req) ==
    IF ~GetStorageProviderByOperatorAddr(req.addr) THEN "ErrStorageProviderNotFound"
    ELSE IF req.gvgId \notin DOMAIN gvgs THEN "ErrGVGNotExist"
    ELSE IF gvgs[req.gvgId].PrimarySpId # req.addr THEN "ErrWithdrawFailed"
    ELSE IF req.denom # DepositDenomForGVG THEN "ErrInvalidDenom"
    ELSE IF GetAvailableStakingTokens(gvgs[req.gvgId]) < req.amount
         THEN "ErrWithdrawAmountTooLarge"
    ELSE IF ~CanSend(bank.vg, WithdrawTokens(gvgs[req.gvgId], req.amount))
         THEN "ErrInsufficientFunds"
    ELSE "OK"

WithdrawError(req) ==
    IF ~GetStorageProviderByOperatorAddr(req.addr) THEN "ErrStorageProviderNotFound"
    ELSE IF req.gvgId \notin DOMAIN gvgs THEN "ErrGVGNotExist"
    ELSE IF gvgs[req.gvgId].PrimarySpId # req.addr THEN "ErrWithdrawFailed"
    ELSE IF req.denom # DepositDenomForGVG THEN "ErrInvalidDenom"
    ELSE IF GetAvailableStakingTokens(gvgs[req.gvgId]) < 0 THEN "panic"
    ELSE IF req.amount # 0 /\ GetAvailableStakingTokens(gvgs[req.gvgId]) < req.amount
         THEN "ErrWithdrawAmountTooLarge"
    ELSE IF ~CanSend(bank.vg, WithdrawTokens(gvgs[req.gvgId], req.amount))
         THEN "ErrInsufficientFunds"
    ELSE "OK"

\* The group as the handler leaves it in the store: Withdraw never calls SetGVG.
WithdrawnGVG(gvg, withdrawTokens) == gvg

Withdraw(req) ==
    LET err == WithdrawError(req) IN
    IF err # "OK"
    THEN /\ last' = Fail("Withdraw", err, req.addr, req.gvgId)
         /\ UNCHANGED <<store, config, swaps>>
    ELSE LET w == WithdrawTokens(gvgs[req.gvgId], req.amount)
             gvg == WithdrawnGVG(gvgs[req.gvgId], w)
         IN  /\ bank' = [bank EXCEPT !.vg = @ - w, !.fund[req.addr] = @ + w]
             /\ gvgs' = [gvgs EXCEPT ![req.gvgId] = gvg]
             /\ last' = Result("Withdraw", "OK", req.addr, req.gvgId, w, "fund",
                               WithdrawEvent(gvg))
             /\ UNCHANGED <<sps, families, stats, nextGVGID, nextFamilyID, config, swaps>>

\* The storage module reports a new stored size of a group.
SetStoredSize(gvgId, size) ==
    /\ gvgId \in DOMAIN gvgs
    /\ gvgs[gvgId].StoredSize # size
    /\ gvgs' = [gvgs EXCEPT ![gvgId].StoredSize = size]
    /\ last' = Fail("SetStoredSize", "OK", 0, gvgId)
    /\ UNCHANGED <<sps, families, stats, bank, nextGVGID, nextFamilyID, config, swaps>>

(* ----------------------------- Exit Coordinator ----------------------- *)
IsExiting(sp) == sp.status = STATUS_GRACEFUL_EXITING \/ sp.status = STATUS_FORCED_EXITING

\* GetAllStorageProviders: the registered SPs in id order.
RECURSIVE AllStorageProviders(_)
AllStorageProviders(n) ==
    IF n = 0 THEN <<>>
    ELSE AllStorageProviders(n - 1) \o (IF n \in DOMAIN sps THEN <<n>> ELSE <<>>)

\* The concurrency loop of both exit handlers: counts the exiting SPs and
\* reports TRUE as soon as the count, just incremented, reaches the cap.
\* The loop with the cap compared by > instead of >=.
RECURSIVE ExitingSPNumExceeded(_, _, _)
ExitingSPNumExceeded(spIds, exitingSPNum, maxSPExitingNum) ==
    IF spIds = <<>> THEN FALSE
    ELSE IF IsExiting(sps[Head(spIds)])
         THEN IF exitingSPNum + 1 > maxSPExitingNum THEN TRUE
              ELSE ExitingSPNumExceeded(Tail(spIds), exitingSPNum + 1, maxSPExitingNum)
    ELSE ExitingSPNumExceeded(Tail(spIds), exitingSPNum, maxSPExitingNum)

RECURSIVE ExitingSPNumReached(_, _, _)
ExitingSPNumReached(spIds, exitingSPNum, maxSPExitingNum) ==
    IF spIds = <<>> THEN FALSE
    ELSE IF IsExiting(sps[Head(spIds)])
         THEN IF exitingSPNum + 1 >= maxSPExitingNum THEN TRUE
              ELSE ExitingSPNumReached(Tail(spIds), exitingSPNum + 1, maxSPExitingNum)
    ELSE ExitingSPNumReached(Tail(spIds), exitingSPNum, maxSPExitingNum)

ExitCapReached == ExitingSPNumReached(AllStorageProviders(NumSP), 0, SpConcurrentExitNum)

\* The check reading the primary counter instead of the redundancy-break counter.
BreaksRedundancyByPrimaryCount(spId) ==
    spId \in DOMAIN stats /\ stats[spId].PrimaryCount # 0

\* stat, found := GetGVGStatisticsWithinSP; found && stat.BreakRedundancyReqmtGvgCount != 0
BreaksRedundancy(spId) ==
    spId \in DOMAIN stats /\ stats[spId].BreakRedundancyReqmtGvgCount # 0

\* The checks StorageProviderExit makes once Hulunbeier is active.
HulunbeierExitError(spId) ==
    IF ~IsUpgraded("Hulunbeier") THEN "OK"
    ELSE IF BreaksRedundancy(spId) THEN "ErrSPCanNotExit"
    ELSE IF ExitCapReached THEN "ErrStorageProviderExitFailed"
    ELSE "OK"

\* The status check refusing only SPs that are already exiting.
StorageProviderExitErrorUnlessExiting(msg) ==
    IF ~GetStorageProviderByOperatorAddr(msg.sp) THEN "ErrStorageProviderNotFound"
    ELSE IF IsExiting(sps[msg.sp]) THEN "ErrStorageProviderExitFailed"
    ELSE HulunbeierExitError(msg.sp)

StorageProviderExitError(msg) ==
    IF ~GetStorageProviderByOperatorAddr(msg.sp) THEN "ErrStorageProviderNotFound"
    ELSE IF sps[msg.sp].status # STATUS_IN_SERVICE THEN "ErrStorageProviderExitFailed"
    ELSE HulunbeierExitError(msg.sp)

StorageProviderExit(msg) ==
    LET err == StorageProviderExitError(msg) IN
    IF err # "OK"
    THEN /\ last' = Fail("StorageProviderExit", err, msg.sp, msg.sp)
         /\ UNCHANGED <<store, config, swaps>>
    ELSE /\ sps' = [sps EXCEPT ![msg.sp].status = STATUS_GRACEFUL_EXITING]
         /\ last' = Result("StorageProviderExit", "OK", msg.sp, msg.sp, 0, "none",
                           <<[type |-> "EventStorageProviderExit", StorageProviderId |-> msg.sp]>>)
         /\ UNCHANGED <<gvgs, families, stats, bank, nextGVGID, nextFamilyID, config, swaps>>

\* The forced exit applying the status check of the voluntary exit.
StorageProviderForcedExitErrorInServiceOnly(msg) ==
    IF Authority # msg.authority THEN "ErrInvalidSigner"
    ELSE IF ~GetStorageProviderByOperatorAddr(msg.sp) THEN "ErrStorageProviderNotFound"
    ELSE IF sps[msg.sp].status # STATUS_IN_SERVICE THEN "ErrStorageProviderExitFailed"
    ELSE IF ExitCapReached THEN "ErrStorageProviderExitFailed"
    ELSE "OK"

\* The forced exit without the authority check.
StorageProviderForcedExitErrorAnyAuthority(msg) ==
    IF ~GetStorageProviderByOperatorAddr(msg.sp) THEN "ErrStorageProviderNotFound"
    ELSE IF ExitCapReached THEN "ErrStorageProviderExitFailed"
    ELSE "OK"

StorageProviderForcedExitError(msg) ==
    IF Authority # msg.authority THEN "ErrInvalidSigner"
    ELSE IF ~GetStorageProviderByOperatorAddr(msg.sp) THEN "ErrStorageProviderNotFound"
    ELSE IF ExitCapReached THEN "ErrStorageProviderExitFailed"
    ELSE "OK"

StorageProviderForcedExit(msg) ==
    LET err == StorageProviderForcedExitError(msg) IN
    IF err # "OK"
    THEN /\ last' = Fail("StorageProviderForcedExit", err, msg.authority, msg.sp)
         /\ UNCHANGED <<store, config, swaps>>
    ELSE /\ sps' = [sps EXCEPT ![msg.sp].status = STATUS_FORCED_EXITING]
         /\ last' = Result("StorageProviderForcedExit", "OK", msg.authority, msg.sp, 0, "none",
                           <<[type |-> "EventStorageProviderForcedExit",
                              StorageProviderId |-> msg.sp]>>)
         /\ UNCHANGED <<gvgs, families, stats, bank, nextGVGID, nextFamilyID, config, swaps>>

\* The exitability predicate of the keeper: no group is still assigned to the SP.
StorageProviderExitable(spId) ==
    IF \E g \in DOMAIN gvgs :
           gvgs[g].PrimarySpId = spId \/ spId \in Range(gvgs[g].SecondarySpIds)
    THEN "ErrSPCanNotExit"
    ELSE "OK"

CompleteStorageProviderExitError(msg) ==
    IF ~GetStorageProviderByOperatorAddr(msg.sp) THEN "ErrStorageProviderNotFound"
    ELSE IF sps[msg.sp].status # STATUS_GRACEFUL_EXITING
            /\ sps[msg.sp].status # STATUS_FORCED_EXITING
         THEN "ErrStorageProviderExitFailed"
    ELSE IF StorageProviderExitable(msg.sp) # "OK" THEN StorageProviderExitable(msg.sp)
    ELSE IF ~CanSend(bank.spmod, sps[msg.sp].totalDeposit) THEN "ErrInsufficientFunds"
    ELSE "OK"

\* The account the deposit of an exiting SP is sent to.
\* The refund branch taken for every exiting SP.
ExitDepositReceiverAlwaysFund(sp) == "fund"

ExitDepositReceiver(sp) ==
    IF sp.status = STATUS_GRACEFUL_EXITING THEN "fund" ELSE "gov"

\* The completion event: the ForcedExit flag is set only by the Hulunbeier branch.
CompleteExitEvent(spId, sp) ==
    IF IsUpgraded("Hulunbeier")
    THEN <<[type |-> "EventCompleteStorageProviderExit", StorageProviderId |-> spId,
            TotalDeposit |-> sp.totalDeposit,
            ForcedExit |-> (sp.status # STATUS_GRACEFUL_EXITING)]>>
    ELSE <<[type |-> "EventCompleteStorageProviderExit", StorageProviderId |-> spId,
            TotalDeposit |-> sp.totalDeposit, ForcedExit |-> FALSE]>>

\* spKeeper.Exit: the SP leaves the registry.
Exit(spId) == [id \in DOMAIN sps \ {spId} |-> sps[id]]

CompleteStorageProviderExit(msg) ==
    LET err == CompleteStorageProviderExitError(msg) IN
    IF err # "OK"
    THEN /\ last' = Fail("CompleteStorageProviderExit", err, msg.sp, msg.sp)
         /\ UNCHANGED <<store, config, swaps>>
    ELSE LET sp == sps[msg.sp]
             to == ExitDepositReceiver(sp)
         IN  /\ bank' = IF to = "fund"
                        THEN [bank EXCEPT !.spmod = @ - sp.totalDeposit,
                                          !.fund[msg.sp] = @ + sp.totalDeposit]
                        ELSE [bank EXCEPT !.spmod = @ - sp.totalDeposit,
                                          !.gov = @ + sp.totalDeposit]
             /\ sps' = Exit(msg.sp)
             /\ last' = Result("CompleteStorageProviderExit", "OK", msg.sp, msg.sp, sp.totalDeposit,
                               to, CompleteExitEvent(msg.sp, sp))
             /\ UNCHANGED <<gvgs, families, stats, nextGVGID, nextFamilyID, config, swaps>>

\* A redundancy-breaking event (or its resolution) recorded in the statistics ledger.
SetBreakRedundancyReqmtGvgCount(spId, n) ==
    /\ spId \in DOMAIN sps
    /\ GetOrCreateGVGStatisticsWithinSP(spId).BreakRedundancyReqmtGvgCount # n
    /\ stats' = Put(stats, spId, [GetOrCreateGVGStatisticsWithinSP(spId)
                                      EXCEPT !.BreakRedundancyReqmtGvgCount = n])
    /\ last' = Fail("SetBreakRedundancyReqmtGvgCount", "OK", 0, spId)
    /\ UNCHANGED <<sps, gvgs, families, bank, nextGVGID, nextFamilyID, config, swaps>>

\* The sp module moves an SP between in-service and in-maintenance.
UpdateSpStatus(spId) ==
    /\ spId \in DOMAIN sps
    /\ sps[spId].status \in {STATUS_IN_SERVICE, STATUS_IN_MAINTENANCE}
    /\ sps' = [sps EXCEPT ![spId].status =
                  IF @ = STATUS_IN_SERVICE THEN STATUS_IN_MAINTENANCE ELSE STATUS_IN_SERVICE]
    /\ last' = Fail("UpdateSpStatus", "OK", 0, spId)
    /\ UNCHANGED <<gvgs, families, stats, bank, nextGVGID, nextFamilyID, config, swaps>>

(* ----------------------------- Swap Coordinator ----------------------- *)
\* A swap request names a family (group list empty) or a list of groups
\* (family id NoSpecifiedFamilyId).
SwapScopes ==
    [familyId : 1..MaxGVG, gvgIds : {{}}]
        \cup [familyId : {NoSpecifiedFamilyId}, gvgIds : SUBSET (1..MaxGVG) \ {{}}]

\* An approval: the SP whose approval key made it and whether it was made over
\* Keccak256(msg.GetApprovalBytes()) of this request or over other bytes.
Approvals == [signer : SpIds, signed : {"request", "other"}]

\* gnfdtypes.VerifySignature(successorSP.ApprovalAddress, hash of the request, sig)
VerifySignature(approvalSpId, sig) == sig.signer = approvalSpId /\ sig.signed = "request"

SwapOutMsgs ==
    [sp : Addrs, scope : SwapScopes, successorSpId : SpIds \cup {MissingSpId},
     approval : Approvals]

\* The pending swap-outs of an incumbent SP on a family or on one group.
FamilySwapOuts(familyId, spId) ==
    {r \in swapOutInfos : r.familyId = familyId /\ r.gvgId = 0 /\ r.spId = spId}

GVGSwapOuts(gvgId, spId) ==
    {r \in swapOutInfos : r.familyId = NoSpecifiedFamilyId /\ r.gvgId = gvgId /\ r.spId = spId}

\* The records a swap-out of this scope writes.
NewSwapOutInfos(scope, spId, successorSpId) ==
    IF scope.familyId # NoSpecifiedFamilyId
    THEN {[familyId |-> scope.familyId, gvgId |-> 0, spId |-> spId,
           successorSpId |-> successorSpId]}
    ELSE {[familyId |-> NoSpecifiedFamilyId, gvgId |-> g, spId |-> spId,
           successorSpId |-> successorSpId] : g \in scope.gvgIds}

\* Keeper.SetSwapOutInfo: the incumbent holds the role it hands off and has no
\* pending swap-out on the scope.
SetSwapOutInfoError(scope, spId) ==
    IF scope.familyId # NoSpecifiedFamilyId
    THEN IF scope.familyId \notin DOMAIN families THEN "ErrGVGFamilyNotExist"
         ELSE IF families[scope.familyId].PrimarySpId # spId THEN "ErrSwapOutFailed"
         ELSE IF FamilySwapOuts(scope.familyId, spId) # {} THEN "ErrSwapOutFailed"
         ELSE "OK"
    ELSE IF \E g \in scope.gvgIds : g \notin DOMAIN gvgs THEN "ErrGVGNotExist"
         ELSE IF \E g \in scope.gvgIds : spId \notin Range(gvgs[g].SecondarySpIds)
              THEN "ErrSwapOutFailed"
         ELSE IF \E g \in scope.gvgIds : GVGSwapOuts(g, spId) # {} THEN "ErrSwapOutFailed"
         ELSE "OK"

\* The checks of SwapOut without the verification of the approval.
SwapOutErrorUnverified(msg) ==
    IF ~GetStorageProviderByOperatorAddr(msg.sp) THEN "ErrStorageProviderNotFound"
    ELSE IF ~GetStorageProvider(msg.successorSpId) THEN "ErrStorageProviderNotFound"
    ELSE IF ~IsInService(sps[msg.successorSpId]) THEN "ErrStorageProviderNotInService"
    ELSE SetSwapOutInfoError(msg.scope, msg.sp)

SwapOutError(msg) ==
    IF ~GetStorageProviderByOperatorAddr(msg.sp) THEN "ErrStorageProviderNotFound"
    ELSE IF ~GetStorageProvider(msg.successorSpId) THEN "ErrStorageProviderNotFound"
    ELSE IF ~IsInService(sps[msg.successorSpId]) THEN "ErrStorageProviderNotInService"
    ELSE IF ~VerifySignature(msg.successorSpId, msg.approval) THEN "ErrInvalidSignature"
    ELSE SetSwapOutInfoError(msg.scope, msg.sp)

SwapOut(msg) ==
    LET err == SwapOutError(msg) IN
    IF err # "OK"
    THEN /\ last' = Fail("SwapOut", err, msg.sp, msg)
         /\ UNCHANGED <<store, config, swaps>>
    ELSE /\ swapOutInfos' =
                swapOutInfos \cup NewSwapOutInfos(msg.scope, msg.sp, msg.successorSpId)
         /\ last' = Result("SwapOut", "OK", msg.sp, msg, 0, "none",
                           <<[type |-> "EventSwapOut", StorageProviderId |-> msg.sp,
                              GlobalVirtualGroupFamilyId |-> msg.scope.familyId,
                              GlobalVirtualGroupIds |-> msg.scope.gvgIds,
                              SuccessorSpId |-> msg.successorSpId]>>)
         /\ UNCHANGED <<store, config, swapInInfos, blockTime>>

SwapOutScopeMsgs == [sp : Addrs, scope : SwapScopes]

\* The pending swap-outs of the incumbent that a request of this scope names.
PendingSwapOuts(scope, spId) ==
    IF scope.familyId # NoSpecifiedFamilyId
    THEN FamilySwapOuts(scope.familyId, spId)
    ELSE UNION {GVGSwapOuts(g, spId) : g \in scope.gvgIds}

\* Every family or group the scope names has a pending swap-out of the incumbent.
HasPendingSwapOut(scope, spId) ==
    IF scope.familyId # NoSpecifiedFamilyId
    THEN FamilySwapOuts(scope.familyId, spId) # {}
    ELSE \A g \in scope.gvgIds : GVGSwapOuts(g, spId) # {}

\* Keeper.DeleteSwapOutInfo
CancelSwapOutError(msg) ==
    IF ~GetStorageProviderByOperatorAddr(msg.sp) THEN "ErrStorageProviderNotFound"
    ELSE IF ~HasPendingSwapOut(msg.scope, msg.sp) THEN "ErrSwapOutFailed"
    ELSE "OK"

CancelSwapOut(msg) ==
    LET err == CancelSwapOutError(msg) IN
    IF err # "OK"
    THEN /\ last' = Fail("CancelSwapOut", err, msg.sp, msg)
         /\ UNCHANGED <<store, config, swaps>>
    ELSE /\ swapOutInfos' = swapOutInfos \ PendingSwapOuts(msg.scope, msg.sp)
         /\ last' = Fail("CancelSwapOut", "OK", msg.sp, msg)
         /\ UNCHANGED <<store, config, swapInInfos, blockTime>>

\* The successor a pending swap-out on a family or a group names.
SwapOutSuccessor(records) == (CHOOSE r \in records : TRUE).successorSpId

\* A secondary list with the slot of the incumbent handed to the successor.
ReplaceSecondary(secondarySpIds, spId, successorSpId) ==
    [i \in 1..Len(secondarySpIds) |->
        IF secondarySpIds[i] = spId THEN successorSpId ELSE secondarySpIds[i]]

\* The groups after a family-scope completion that reassigns the family only.
SwapOutGVGsFamilyOnly(scope, spId) == gvgs

\* The groups after a completion: every member group of a swapped family gets
\* the successor as primary SP, every listed group gets it in the slot of the
\* incumbent.
SwapOutGVGs(scope, spId) ==
    IF scope.familyId # NoSpecifiedFamilyId
    THEN [g \in DOMAIN gvgs |->
            IF gvgs[g].FamilyId = scope.familyId
            THEN [gvgs[g] EXCEPT !.PrimarySpId =
                      SwapOutSuccessor(FamilySwapOuts(scope.familyId, spId))]
            ELSE gvgs[g]]
    ELSE [g \in DOMAIN gvgs |->
            IF g \in scope.gvgIds
            THEN [gvgs[g] EXCEPT !.SecondarySpIds =
                      ReplaceSecondary(@, spId, SwapOutSuccessor(GVGSwapOuts(g, spId)))]
            ELSE gvgs[g]]

SwapOutFamilies(scope, spId) ==
    IF scope.familyId # NoSpecifiedFamilyId
    THEN [families EXCEPT ![scope.familyId].PrimarySpId =
              SwapOutSuccessor(FamilySwapOuts(scope.familyId, spId))]
    ELSE families

\* Keeper.CompleteSwapOut: finds the pending swap-out of the scope or fails.
CompleteSwapOutError(msg) ==
    IF ~GetStorageProviderByOperatorAddr(msg.sp) THEN "ErrStorageProviderNotFound"
    ELSE IF ~HasPendingSwapOut(msg.scope, msg.sp) THEN "ErrSwapOutFailed"
    ELSE "OK"

CompleteSwapOut(msg) ==
    LET err == CompleteSwapOutError(msg) IN
    IF err # "OK"
    THEN /\ last' = Fail("CompleteSwapOut", err, msg.sp, msg)
         /\ UNCHANGED <<store, config, swaps>>
    ELSE /\ gvgs' = SwapOutGVGs(msg.scope, msg.sp)
         /\ families' = SwapOutFamilies(msg.scope, msg.sp)
         /\ swapOutInfos' = swapOutInfos \ PendingSwapOuts(msg.scope, msg.sp)
         /\ last' = Fail("CompleteSwapOut", "OK", msg.sp, msg)
         /\ UNCHANGED <<sps, stats, bank, nextGVGID, nextFamilyID, config,
                        swapInInfos, blockTime>>

(* swap-in *)
IntWidth == 4     \* bits of int64 and uint64 in this model (64 in the program)

\* int64(x): the two's complement reading of the low IntWidth bits of x.
ToInt64(x) ==
    LET m == x % (2 ^ IntWidth) IN IF m >= 2 ^ (IntWidth - 1) THEN m - 2 ^ IntWidth ELSE m

\* uint64(x): the low IntWidth bits of x.
ToUint64(x) == x % (2 ^ IntWidth)

\* expirationTime := ctx.BlockTime().Unix() + int64(k.SwapInValidityPeriod(ctx))
ExpirationTime == ToInt64(blockTime + ToInt64(SwapInValidityPeriod))

\* A swap-in request names a family (group id 0) or one group (family id
\* NoSpecifiedFamilyId).
SwapInScopes ==
    [familyId : 1..MaxGVG, gvgId : {0}] \cup [familyId : {NoSpecifiedFamilyId}, gvgId : 1..MaxGVG]

ReserveSwapInMsgs == [sp : Addrs, scope : SwapInScopes, targetSpId : SpIds \cup {MissingSpId}]

SwapInScopeMsgs == [sp : Addrs, scope : SwapInScopes]

\* The reservations recorded on a family or a group.
SwapInsOn(scope) ==
    {r \in swapInInfos : r.familyId = scope.familyId /\ r.gvgId = scope.gvgId}

\* A reservation whose expiration timestamp is in the past.
IsExpired(r) == r.expirationTime < blockTime

\* Keeper.SwapIn: the target holds the role of the scope and no reservation
\* that has not expired is recorded on it.
SwapInError(scope, successorSpId, targetSpId) ==
    IF scope.familyId # NoSpecifiedFamilyId /\ scope.familyId \notin DOMAIN families
    THEN "ErrGVGFamilyNotExist"
    ELSE IF scope.familyId # NoSpecifiedFamilyId
            /\ families[scope.familyId].PrimarySpId # targetSpId
    THEN "ErrSwapInFailed"
    ELSE IF scope.familyId = NoSpecifiedFamilyId /\ scope.gvgId \notin DOMAIN gvgs
    THEN "ErrGVGNotExist"
    ELSE IF scope.familyId = NoSpecifiedFamilyId
            /\ targetSpId \notin Range(gvgs[scope.gvgId].SecondarySpIds)
    THEN "ErrSwapInFailed"
    ELSE IF \E r \in SwapInsOn(scope) : ~IsExpired(r) THEN "ErrSwapInFailed"
    ELSE "OK"

ReserveSwapInError(msg) ==
    IF ~GetStorageProviderByOperatorAddr(msg.sp) THEN "ErrStorageProviderNotFound"
    ELSE IF msg.sp = msg.targetSpId THEN "ErrSwapInFailed"
    ELSE IF ~GetStorageProvider(msg.targetSpId) THEN "ErrStorageProviderNotFound"
    ELSE SwapInError(msg.scope, msg.sp, msg.targetSpId)

ReserveSwapIn(msg) ==
    LET err == ReserveSwapInError(msg) IN
    IF err # "OK"
    THEN /\ last' = Fail("ReserveSwapIn", err, msg.sp, msg)
         /\ UNCHANGED <<store, config, swaps>>
    ELSE /\ swapInInfos' =
                (swapInInfos \ SwapInsOn(msg.scope))
                    \cup {[familyId |-> msg.scope.familyId, gvgId |-> msg.scope.gvgId,
                           successorSpId |-> msg.sp, targetSpId |-> msg.targetSpId,
                           expirationTime |-> ExpirationTime]}
         /\ last' = Result("ReserveSwapIn", "OK", msg.sp, msg, 0, "none",
                           <<[type |-> "EventReserveSwapIn", StorageProviderId |-> msg.sp,
                              GlobalVirtualGroupFamilyId |-> msg.scope.familyId,
                              GlobalVirtualGroupId |-> msg.scope.gvgId,
                              TargetSpId |-> msg.targetSpId,
                              ExpirationTime |-> ToUint64(ExpirationTime)]>>)
         /\ UNCHANGED <<store, config, swapOutInfos, blockTime>>

\* The reservations of a successor on a family or a group.
SwapInsOf(scope, successorSpId) ==
    {r \in SwapInsOn(scope) : r.successorSpId = successorSpId}

\* Keeper.DeleteSwapInInfo
CancelSwapInError(msg) ==
    IF ~GetStorageProviderByOperatorAddr(msg.sp) THEN "ErrStorageProviderNotFound"
    ELSE IF SwapInsOf(msg.scope, msg.sp) = {} THEN "ErrSwapInFailed"
    ELSE "OK"

CancelSwapIn(msg) ==
    LET err == CancelSwapInError(msg) IN
    IF err # "OK"
    THEN /\ last' = Fail("CancelSwapIn", err, msg.sp, msg)
         /\ UNCHANGED <<store, config, swaps>>
    ELSE /\ swapInInfos' = swapInInfos \ SwapInsOf(msg.scope, msg.sp)
         /\ last' = Fail("CancelSwapIn", "OK", msg.sp, msg)
         /\ UNCHANGED <<store, config, swapOutInfos, blockTime>>

\* The completion that never looks at the expiration timestamp.
CompleteSwapInErrorNoExpiry(msg) ==
    IF ~GetStorageProviderByOperatorAddr(msg.sp) THEN "ErrStorageProviderNotFound"
    ELSE IF SwapInsOf(msg.scope, msg.sp) = {} THEN "ErrSwapInFailed"
    ELSE "OK"

\* Keeper.CompleteSwapIn: finds the reservation of the successor and refuses
\* it once it has expired.
CompleteSwapInError(msg) ==
    IF ~GetStorageProviderByOperatorAddr(msg.sp) THEN "ErrStorageProviderNotFound"
    ELSE IF SwapInsOf(msg.scope, msg.sp) = {} THEN "ErrSwapInFailed"
    ELSE IF \E r \in SwapInsOf(msg.scope, msg.sp) : IsExpired(r) THEN "ErrSwapInExpired"
    ELSE "OK"

\* The groups after a swap-in: the successor takes the primary role in every
\* member group of the family, or the slot of the target in the group.
SwapInGVGs(scope, successorSpId, targetSpId) ==
    [g \in DOMAIN gvgs |->
        IF scope.familyId # NoSpecifiedFamilyId /\ gvgs[g].FamilyId = scope.familyId
        THEN [gvgs[g] EXCEPT !.PrimarySpId = successorSpId]
        ELSE IF scope.familyId = NoSpecifiedFamilyId /\ g = scope.gvgId
        THEN [gvgs[g] EXCEPT !.SecondarySpIds =
                  ReplaceSecondary(@, targetSpId, successorSpId)]
        ELSE gvgs[g]]

SwapInFamilies(scope, successorSpId) ==
    IF scope.familyId # NoSpecifiedFamilyId
    THEN [families EXCEPT ![scope.familyId].PrimarySpId = successorSpId]
    ELSE families

CompleteSwapIn(msg) ==
    LET err == CompleteSwapInError(msg) IN
    IF err # "OK"
    THEN /\ last' = Fail("CompleteSwapIn", err, msg.sp, msg)
         /\ UNCHANGED <<store, config, swaps>>
    ELSE LET r == CHOOSE x \in SwapInsOf(msg.scope, msg.sp) : TRUE
         IN  /\ gvgs' = SwapInGVGs(msg.scope, msg.sp, r.targetSpId)
             /\ families' = SwapInFamilies(msg.scope, msg.sp)
             /\ swapInInfos' = swapInInfos \ SwapInsOf(msg.scope, msg.sp)
             /\ last' = Fail("CompleteSwapIn", "OK", msg.sp, msg)
             /\ UNCHANGED <<sps, stats, bank, nextGVGID, nextFamilyID, config,
                            swapOutInfos, blockTime>>

\* A new block: the block time advances.
MaxTime == 3

BeginBlock ==
    /\ blockTime < MaxTime
    /\ blockTime' = blockTime + 1
    /\ last' = Fail("BeginBlock", "OK", 0, 0)
    /\ UNCHANGED <<store, config, swapOutInfos, swapInInfos>>

(* ----------------------------- Settlement Engine ---------------------- *)
MaxSettleLen == 2     \* longest group id list of a settle request

\* A settle request names a family, or lists group ids (repetitions allowed).
SettleScopes ==
    [familyId : 1..MaxGVG, gvgIds : {<<>>}]
        \cup [familyId : {NoSpecifiedFamilyId}, gvgIds : SeqsUpTo(1..MaxGVG, MaxSettleLen)]

\* The groups whose revenue the payment module cannot distribute right now.
Undistributable == {{}} \cup {{g} : g \in 1..MaxGVG}

SettleMsgs == [sp : Addrs, scope : SettleScopes, undistributable : Undistributable]

\* m := make(map[uint32]struct{}); for _, gvgID := range req.GlobalVirtualGroupIds { m[gvgID] = struct{}{} }
SettleGroupIds(msg) == Range(msg.scope.gvgIds)

\* Keeper.SettleAndDistributeGVGFamily
SettleAndDistributeGVGFamilyError(family, undistributable) ==
    IF Range(family.GlobalVirtualGroupIds) \cap undistributable # {} THEN "ErrSettleFailed"
    ELSE "OK"

\* The family branch of Settle.
SettleFamilyError(msg) ==
    IF msg.scope.familyId \notin DOMAIN families THEN "ErrGVGFamilyNotExist"
    ELSE IF IsUpgraded("Pampas")
            /\ ~GetStorageProvider(families[msg.scope.familyId].PrimarySpId)
    THEN "ErrStorageProviderNotFound"
    ELSE SettleAndDistributeGVGFamilyError(families[msg.scope.familyId], msg.undistributable)

\* One iteration of the group loop without the check of the caller.
SettleGVGErrorAnyCaller(msg, gvgID) ==
    IF gvgID \notin DOMAIN gvgs THEN "ErrGVGNotExist"
    ELSE IF gvgID \in msg.undistributable THEN "ErrSettleFailed"
    ELSE "OK"

\* One iteration of the group loop of Settle.
SettleGVGError(msg, gvgID) ==
    IF gvgID \notin DOMAIN gvgs THEN "ErrGVGNotExist"
    ELSE IF ~IsUpgraded("Pampas") /\ msg.sp \notin Range(gvgs[gvgID].SecondarySpIds)
    THEN "ErrSettleFailed"
    ELSE IF gvgID \in msg.undistributable THEN "ErrSettleFailed"
    ELSE "OK"

\* for gvgID := range m: the orders in which the map of ids can be ranged over.
VisitOrders(ids) ==
    {order \in [1..Cardinality(ids) -> ids] :
        \A i, j \in 1..Cardinality(ids) : order[i] = order[j] => i = j}

\* The group loop of Settle run over the ids in one order: the error it returns
\* and the groups SettleAndDistributeGVG was completed for before it returned.
RECURSIVE SettleInOrder(_, _, _)
SettleInOrder(msg, order, settled) ==
    IF order = <<>> THEN [err |-> "OK", settled |-> settled]
    ELSE IF SettleGVGError(msg, Head(order)) # "OK"
    THEN [err |-> SettleGVGError(msg, Head(order)), settled |-> settled]
    ELSE SettleInOrder(msg, Tail(order), settled \cup {Head(order)})

\* What the group loop can return and settle for one request in one state.
SettleOutcomes(msg) ==
    {SettleInOrder(msg, order, {}) : order \in VisitOrders(SettleGroupIds(msg))}

\* The errors Settle can return: that of the first failing iteration, in
\* whichever order the map of group ids is ranged over; "OK" if none fails.
SettleErrors(msg) ==
    IF ~IsUpgraded("Pampas") /\ ~GetStorageProviderByOperatorAddr(msg.sp)
    THEN {"ErrStorageProviderNotFound"}
    ELSE IF msg.scope.familyId # NoSpecifiedFamilyId THEN {SettleFamilyError(msg)}
    ELSE LET failed == {SettleGVGError(msg, g) : g \in SettleGroupIds(msg)} \ {"OK"}
         IN  IF failed = {} THEN {"OK"} ELSE failed

\* The groups a successful Settle has distributed, each once, in id order.
RECURSIVE SettledGroups(_, _)
SettledGroups(ids, n) ==
    IF n = 0 THEN <<>>
    ELSE SettledGroups(ids, n - 1)
             \o (IF n \in ids THEN <<[type |-> "SettleAndDistributeGVG", Id |-> n]>> ELSE <<>>)

SettledBy(msg) ==
    IF msg.scope.familyId # NoSpecifiedFamilyId
    THEN SettledGroups(Range(families[msg.scope.familyId].GlobalVirtualGroupIds), MaxGVG)
    ELSE SettledGroups(SettleGroupIds(msg), MaxGVG)

Settle(msg) ==
    \E err \in SettleErrors(msg) :
        /\ last' = IF err # "OK" THEN Fail("Settle", err, msg.sp, msg)
                   ELSE Result("Settle", "OK", msg.sp, msg, 0, "none", SettledBy(msg))
        /\ UNCHANGED <<store, config, swaps>>

(* ------------------------------- genesis ------------------------------- *)
InitFunds == 2        \* tokens every funding account holds at genesis

SpDeposit(id) == id   \* TotalDeposit of SP id, held by the sp module pool

InitStore ==
    /\ sps = [id \in SpIds |-> [status |-> STATUS_IN_SERVICE, totalDeposit |-> SpDeposit(id)]]
    /\ gvgs = <<>>
    /\ families = <<>>
    /\ stats = <<>>
    /\ bank = [vg |-> 0, spmod |-> SumOver([id \in SpIds |-> SpDeposit(id)], SpIds),
               gov |-> 0, fund |-> [id \in SpIds |-> InitFunds]]
    /\ nextGVGID = 1
    /\ nextFamilyID = 1
    /\ swapOutInfos = {}
    /\ swapInInfos = {}
    /\ blockTime = 0
    /\ last = Fail("none", "OK", 0, 0)

(* ------------------------------ requests ------------------------------- *)
\* Secondary SP lists of the expected length over registered SPs.
ExpectedSecondaryLists == [1..ExpectSecondarySPNum -> SpIds]

\* Create requests with any secondary list, missing SPs and duplicates included.
AnyCreateReqs ==
    [sp : Addrs, familyId : 0..MaxGVG,
     secondarySpIds : SeqsUpTo(SpIds \cup {MissingSpId}, MaxSecLen), deposit : {1}]

\* Create requests with a secondary list of the expected length.
PlainCreateReqs ==
    [sp : Addrs, familyId : 0..MaxGVG, secondarySpIds : ExpectedSecondaryLists,
     deposit : {1}]

\* Create requests that open a new family and escrow nothing.
NewFamilyCreateReqs ==
    [sp : Addrs, familyId : {NoSpecifiedFamilyId}, secondarySpIds : ExpectedSecondaryLists,
     deposit : {0}]

(* ---------------- group creation: the statistics ledger ---------------- *)
InitCreate ==
    /\ InitStore
    /\ upgraded \in SUBSET {"Pampas", "Manchurian"}
    /\ params = [MaxGlobalVirtualGroupNumPerFamily |-> MaxParam, SpConcurrentExitNum |-> 1,
                 SwapInValidityPeriod |-> 1]

CreateGroup == \E req \in AnyCreateReqs : CreateGlobalVirtualGroup(req)

NextCreate == CreateGroup

SpecCreate == InitCreate /\ [][NextCreate]_vars

(* -------------------- group creation: the families --------------------- *)
InitFamily ==
    /\ InitStore
    /\ upgraded \in {{}, Upgrades}
    /\ params \in [MaxGlobalVirtualGroupNumPerFamily : 1..MaxParam, SpConcurrentExitNum : {1},
                  SwapInValidityPeriod : {1}]

CreateInFamily == \E req \in PlainCreateReqs : CreateGlobalVirtualGroup(req)

NextFamily == CreateInFamily

SpecFamily == InitFamily /\ [][NextFamily]_vars

(* -------------------------- deposits and escrow ------------------------ *)
InitDeposit ==
    /\ InitStore
    /\ upgraded = Upgrades
    /\ params = [MaxGlobalVirtualGroupNumPerFamily |-> 1, SpConcurrentExitNum |-> 1,
                 SwapInValidityPeriod |-> 1]

CreateFunded ==
    \E req \in PlainCreateReqs :
        /\ req.familyId = NoSpecifiedFamilyId
        /\ req.secondarySpIds[1] = NumSP
        /\ CreateGlobalVirtualGroup(req)

DepositTokens ==
    \E req \in TokenReqs :
        /\ req.gvgId \in DOMAIN gvgs => gvgs[req.gvgId].TotalDeposit + req.amount <= MaxTotalDeposit
        /\ Deposit(req)

WithdrawTokensReq == \E req \in TokenReqs : Withdraw(req)

StoredSizeChange == \E g \in 1..MaxGVG, size \in 0..MaxStoredSize : SetStoredSize(g, size)

NextDeposit == CreateFunded \/ DepositTokens \/ WithdrawTokensReq \/ StoredSizeChange

SpecDeposit == InitDeposit /\ [][NextDeposit]_vars

(* ------------------------- withdrawals and stake ----------------------- *)
\* Create requests that open a new family and escrow any amount.
StakedCreateReqs ==
    [sp : Addrs, familyId : {NoSpecifiedFamilyId}, secondarySpIds : ExpectedSecondaryLists,
     deposit : 0..MaxAmount]

CreateStaked == \E req \in StakedCreateReqs : gvgs = <<>> /\ CreateGlobalVirtualGroup(req)

NextWithdraw == CreateStaked \/ WithdrawTokensReq \/ StoredSizeChange

SpecWithdraw == InitDeposit /\ [][NextWithdraw]_vars

(* ----------------------- deposits on a single group -------------------- *)
NextStake == CreateStaked \/ DepositTokens

SpecStake == InitDeposit /\ [][NextStake]_vars

(* ------------------------- storage provider exit ----------------------- *)
InitExit ==
    /\ InitStore
    /\ upgraded \in {{"Pampas", "Manchurian"}, Upgrades}
    /\ params \in [MaxGlobalVirtualGroupNumPerFamily : {1}, SpConcurrentExitNum : 1..MaxParam,
                  SwapInValidityPeriod : {1}]

ExitRequest == \E a \in Addrs : StorageProviderExit([sp |-> a])

ForcedExitRequest ==
    \E a \in Addrs, auth \in Authorities :
        StorageProviderForcedExit([authority |-> auth, sp |-> a])

CompleteExitRequest == \E a \in Addrs : CompleteStorageProviderExit([sp |-> a])

RedundancyChange ==
    \E id \in SpIds, n \in 0..MaxBreak : SetBreakRedundancyReqmtGvgCount(id, n)

SpStatusChange == \E id \in SpIds : UpdateSpStatus(id)

NextExit ==
    \/ ExitRequest
    \/ ForcedExitRequest
    \/ CompleteExitRequest
    \/ RedundancyChange
    \/ SpStatusChange

SpecExit == InitExit /\ [][NextExit]_vars

(* ------------- exit completion with groups still assigned -------------- *)
CreateAssigned ==
    \E req \in NewFamilyCreateReqs : gvgs = <<>> /\ CreateGlobalVirtualGroup(req)

NextComplete ==
    \/ CreateAssigned
    \/ ExitRequest
    \/ ForcedExitRequest
    \/ CompleteExitRequest

SpecComplete == InitExit /\ [][NextComplete]_vars

(* ------------------------------- swap-out ------------------------------ *)
\* Create requests of registered SPs that escrow nothing.
SwapCreateReqs ==
    [sp : SpIds, familyId : 0..MaxGVG, secondarySpIds : ExpectedSecondaryLists,
     deposit : {0}]

CreateSwappable == \E req \in SwapCreateReqs : CreateGlobalVirtualGroup(req)

CancelSwapOutRequest == \E msg \in SwapOutScopeMsgs : msg.sp \in SpIds /\ CancelSwapOut(msg)

CompleteSwapOutRequest == \E msg \in SwapOutScopeMsgs : msg.sp \in SpIds /\ CompleteSwapOut(msg)

\* Swap-out requests carrying the approval of the successor they name.
ApprovedSwapOutRequest ==
    \E msg \in SwapOutMsgs :
        /\ msg.sp \in SpIds
        /\ VerifySignature(msg.successorSpId, msg.approval)
        /\ SwapOut(msg)

CreateFirstGroup == gvgs = <<>> /\ CreateSwappable

\* SP 1 creates the one group the swap requests are about.
CreateTarget ==
    \E req \in NewFamilyCreateReqs :
        gvgs = <<>> /\ req.sp = 1 /\ CreateGlobalVirtualGroup(req)

\* Swap-out requests on the family and the group that exist, with any caller,
\* successor and approval.
SwapOutExisting ==
    \E msg \in SwapOutMsgs :
        /\ msg.scope.familyId <= 1 /\ msg.scope.gvgIds \subseteq {1}
        /\ SwapOut(msg)

NextSwapOut == CreateTarget \/ SwapOutExisting \/ SpStatusChange

SpecSwapOut == InitDeposit /\ [][NextSwapOut]_vars

\* SP 1 opens a family with its first create and adds its later groups to it.
CreateMember ==
    \E req \in SwapCreateReqs :
        /\ req.sp = 1
        /\ IF families = <<>> THEN req.familyId = NoSpecifiedFamilyId ELSE req.familyId = 1
        /\ CreateGlobalVirtualGroup(req)

NextSwapCycle ==
    \/ CreateMember
    \/ ApprovedSwapOutRequest
    \/ CancelSwapOutRequest
    \/ CompleteSwapOutRequest

SpecSwapCycle == InitDeposit /\ [][NextSwapCycle]_vars

(* ------------------------------- swap-in ------------------------------- *)
\* A validity period of one second and the least one that int64 cannot hold.
InitSwapIn ==
    /\ InitStore
    /\ upgraded = Upgrades
    /\ params \in [MaxGlobalVirtualGroupNumPerFamily : {1}, SpConcurrentExitNum : {1},
                    SwapInValidityPeriod : {1, 2 ^ (IntWidth - 1)}]

ReserveSwapInRequest == \E msg \in ReserveSwapInMsgs : ReserveSwapIn(msg)

CancelSwapInRequest == \E msg \in SwapInScopeMsgs : CancelSwapIn(msg)

CompleteSwapInRequest == \E msg \in SwapInScopeMsgs : CompleteSwapIn(msg)

NextSwapIn ==
    \/ CreateFirstGroup
    \/ ReserveSwapInRequest
    \/ CancelSwapInRequest
    \/ CompleteSwapInRequest
    \/ BeginBlock

SpecSwapIn == InitSwapIn /\ [][NextSwapIn]_vars

(* ------------------------- swap-in expiration -------------------------- *)
InitExpiry ==
    /\ InitStore
    /\ upgraded = Upgrades
    /\ params = [MaxGlobalVirtualGroupNumPerFamily |-> 1, SpConcurrentExitNum |-> 1,
                 SwapInValidityPeriod |-> 1]

\* Swap-in requests of registered SPs on the family and the group that exist.
ReserveExisting ==
    \E msg \in ReserveSwapInMsgs :
        /\ msg.sp \in SpIds /\ msg.targetSpId \in SpIds
        /\ msg.scope.familyId <= 1 /\ msg.scope.gvgId <= 1
        /\ ReserveSwapIn(msg)

CancelExisting ==
    \E msg \in SwapInScopeMsgs :
        /\ msg.sp \in SpIds
        /\ msg.scope.familyId <= 1 /\ msg.scope.gvgId <= 1
        /\ CancelSwapIn(msg)

CompleteExisting ==
    \E msg \in SwapInScopeMsgs :
        /\ msg.sp \in SpIds
        /\ msg.scope.familyId <= 1 /\ msg.scope.gvgId <= 1
        /\ CompleteSwapIn(msg)

NextExpiry ==
    \/ CreateTarget
    \/ ReserveExisting
    \/ CancelExisting
    \/ CompleteExisting
    \/ BeginBlock

SpecExpiry == InitExpiry /\ [][NextExpiry]_vars

(* ------------------------------ settlement ----------------------------- *)
InitSettle ==
    /\ InitStore
    /\ upgraded \in {{}, Upgrades}
    /\ params = [MaxGlobalVirtualGroupNumPerFamily |-> 1, SpConcurrentExitNum |-> 1,
                 SwapInValidityPeriod |-> 1]

SettleRequest == \E msg \in SettleMsgs : Settle(msg)

NextSettle == CreateMember \/ SettleRequest

SpecSettle == InitSettle /\ [][NextSettle]_vars

(* ------------- group creation: the duplicate-topology guard ------------- *)
\* The protocol versions in the order the chain activates them.
UpgradeOrder == <<"Pampas", "Manchurian", "Hulunbeier">>

\* The chain reaches the height of its next protocol version.
ActivateUpgrade ==
    /\ \E i \in 1..Len(UpgradeOrder) :
          /\ UpgradeOrder[i] \notin upgraded
          /\ \A j \in 1..(i - 1) : UpgradeOrder[j] \in upgraded
          /\ upgraded' = upgraded \cup {UpgradeOrder[i]}
    /\ last' = Result("Upgrade", "OK", NoAddr, 0, 0, "none", <<>>)
    /\ UNCHANGED <<store, params, swaps>>

InitGuard ==
    /\ InitStore
    /\ upgraded = {}
    /\ params = [MaxGlobalVirtualGroupNumPerFamily |-> MaxParam, SpConcurrentExitNum |-> 1,
                 SwapInValidityPeriod |-> 1]

NextGuard == CreateGroup \/ ActivateUpgrade

SpecGuard == InitGuard /\ [][NextGuard]_vars

(* ============================== claims ================================= *)

CreateSucceeded == last.op = "CreateGlobalVirtualGroup" /\ last.err = "OK"

\* C1: in every reachable state, no family records more group ids than the
\* configured per-family maximum MaxGlobalVirtualGroupNumPerFamily.
C1_FamilyWithinLimit ==
    \A f \in DOMAIN families :
        Len(families[f].GlobalVirtualGroupIds) <= MaxGlobalVirtualGroupNumPerFamily

PrimaryCountOf(st, spId) == IF spId \in DOMAIN st THEN st[spId].PrimaryCount ELSE 0

\* C6: every successful CreateGlobalVirtualGroup step raises the stored
\* PrimaryCount of the creating SP by exactly one, whatever the secondary list.
C6_CreateIncrementsPrimaryCount ==
    [][nextGVGID' # nextGVGID =>
         PrimaryCountOf(stats', gvgs'[nextGVGID].PrimarySpId)
             = PrimaryCountOf(stats, gvgs'[nextGVGID].PrimarySpId) + 1]_vars

TotalSecondaryCount ==
    SumOver([id \in DOMAIN stats |-> stats[id].SecondaryCount], DOMAIN stats)

TotalSecondarySlots ==
    SumOver([g \in DOMAIN gvgs |-> Len(gvgs[g].SecondarySpIds)], DOMAIN gvgs)

\* C7: after any sequence of successful creations, the SecondaryCount summed
\* over all SPs equals the number of secondary slots of all stored groups,
\* with the Pampas upgrade active or not.
C7_SecondaryCountSum == TotalSecondaryCount = TotalSecondarySlots

C8_ForeignFamilyRefused ==
    last.op = "CreateGlobalVirtualGroup" /\ last.err = "ErrFamilyPrimaryMismatch"

TotalDepositOfGroups ==
    SumOver([g \in DOMAIN gvgs |-> gvgs[g].TotalDeposit], DOMAIN gvgs)

\* C4: after any sequence of create, deposit and withdraw requests, the
\* TotalDeposit summed over all stored groups equals the module pool balance.
C4_EscrowReconciles == TotalDepositOfGroups = bank.vg

\* C5: a successful Withdraw that moves w tokens out of the module pool
\* lowers the stored TotalDeposit of the group by exactly w.
C5_WithdrawReducesTotalDeposit ==
    [][(last'.op = "Withdraw" /\ last'.err = "OK") =>
         /\ bank'.vg = bank.vg - last'.amount
         /\ gvgs'[last'.id].TotalDeposit = gvgs[last'.id].TotalDeposit - last'.amount]_vars

\* The redundancy-break counter the statistics ledger holds for an SP (0 if none).
RedundancyBreakCount(spId) ==
    IF spId \in DOMAIN stats THEN stats[spId].BreakRedundancyReqmtGvgCount ELSE 0

ExitingSPs == {id \in DOMAIN sps : IsExiting(sps[id])}

\* C2 (as claimed): the number of SPs in GRACEFUL_EXITING or FORCED_EXITING
\* never exceeds SpConcurrentExitNum, whatever upgrades are active.
C2_ExitingWithinCapAlways == Cardinality(ExitingSPs) <= SpConcurrentExitNum

\* C2 (amended): with Hulunbeier active from genesis and a positive cap, the
\* number of SPs in GRACEFUL_EXITING or FORCED_EXITING never exceeds the cap.
C2_ExitingWithinCap ==
    IsUpgraded("Hulunbeier") => Cardinality(ExitingSPs) <= SpConcurrentExitNum

\* C2 witness: with Hulunbeier active and the cap met, the exit request of an
\* in-service SP whose redundancy-break counter is zero was refused.
C2_Witness ==
    /\ IsUpgraded("Hulunbeier")
    /\ last.op = "StorageProviderExit" /\ last.err = "ErrStorageProviderExitFailed"
    /\ last.id \in DOMAIN sps /\ sps[last.id].status = STATUS_IN_SERVICE
    /\ Cardinality(ExitingSPs) = SpConcurrentExitNum

\* C3 (as claimed): whatever upgrades are active, a StorageProviderExit of an
\* SP whose redundancy-break counter is nonzero fails and changes no status.
C3_BreakBlocksExitAlways ==
    [][(last'.op = "StorageProviderExit" /\ RedundancyBreakCount(last'.id) # 0) =>
         (last'.err # "OK" /\ sps' = sps)]_vars

\* C3 (amended): with Hulunbeier active, a StorageProviderExit of an SP whose
\* redundancy-break counter is nonzero fails and changes no status.
C3_BreakBlocksExit ==
    [][(last'.op = "StorageProviderExit" /\ IsUpgraded("Hulunbeier")
            /\ RedundancyBreakCount(last'.id) # 0) =>
         (last'.err # "OK" /\ sps' = sps)]_vars

\* C3 witness: an in-service SP was refused because its counter is nonzero.
C3_Witness ==
    /\ last.op = "StorageProviderExit" /\ last.err = "ErrSPCanNotExit"
    /\ sps[last.id].status = STATUS_IN_SERVICE
    /\ RedundancyBreakCount(last.id) > 0

\* C9: a StorageProviderForcedExit by the governance authority for a registered
\* SP, with fewer exiting SPs than the cap, succeeds and sets FORCED_EXITING
\* whatever the status and the redundancy-break counter of the SP; by any other
\* authority it fails and changes no SP.
C9_ForcedExit ==
    [][last'.op = "StorageProviderForcedExit" =>
         /\ (last'.by = Authority /\ last'.id \in DOMAIN sps
                /\ Cardinality(ExitingSPs) < SpConcurrentExitNum) =>
                (/\ last'.err = "OK"
                 /\ sps' = [sps EXCEPT ![last'.id].status = STATUS_FORCED_EXITING])
         /\ last'.by # Authority => (last'.err # "OK" /\ sps' = sps)]_vars

\* C9 witness: governance forced out an SP whose redundancy-break counter is
\* nonzero while Hulunbeier is active.
C9_Witness ==
    /\ last.op = "StorageProviderForcedExit" /\ last.err = "OK" /\ last.by = Authority
    /\ sps[last.id].status = STATUS_FORCED_EXITING
    /\ IsUpgraded("Hulunbeier") /\ RedundancyBreakCount(last.id) > 0

\* C9 witness of the refusal: another authority was turned away.
C9_OtherAuthorityRefused ==
    last.op = "StorageProviderForcedExit" /\ last.by = "other" /\ last.err = "ErrInvalidSigner"

\* The effect C10 describes, with the ForcedExit flag a forced completion must carry.
CompleteExitEffect(forcedFlag) ==
    last'.op = "CompleteStorageProviderExit" =>
        IF last'.err = "OK"
        THEN /\ last'.id \in DOMAIN sps
             /\ IsExiting(sps[last'.id])
             /\ StorageProviderExitable(last'.id) = "OK"
             /\ last'.id \notin DOMAIN sps'
             /\ bank'.spmod = bank.spmod - sps[last'.id].totalDeposit
             /\ bank'.vg = bank.vg
             /\ Len(last'.events) = 1
             /\ IF sps[last'.id].status = STATUS_GRACEFUL_EXITING
                THEN /\ bank'.fund = [bank.fund EXCEPT ![last'.id] = @ + sps[last'.id].totalDeposit]
                     /\ bank'.gov = bank.gov
                     /\ last'.events[1].ForcedExit = FALSE
                ELSE /\ bank'.gov = bank.gov + sps[last'.id].totalDeposit
                     /\ bank'.fund = bank.fund
                     /\ last'.events[1].ForcedExit = forcedFlag
        ELSE bank' = bank /\ sps' = sps

\* C10 (as claimed): CompleteStorageProviderExit succeeds only for an exiting,
\* exitable SP; it then moves exactly the SP's TotalDeposit out of the sp pool,
\* to the SP's funding address with ForcedExit=false after a graceful exit and
\* to the governance account with ForcedExit=true after a forced one; a failed
\* completion moves no tokens and removes no SP.
C10_CompleteExitAlwaysFlagged == [][CompleteExitEffect(TRUE)]_vars

\* C10 (amended): as claimed, except that the event of a forced completion
\* carries ForcedExit=true only when Hulunbeier is active; before Hulunbeier the
\* event has no flag (it reads false).
C10_CompleteExit == [][CompleteExitEffect(IsUpgraded("Hulunbeier"))]_vars

\* C10 witness: a forced exit was completed and the deposit forfeited.
C10_Witness ==
    /\ last.op = "CompleteStorageProviderExit" /\ last.err = "OK"
    /\ last.to = "gov" /\ bank.gov = SpDeposit(last.id)
    /\ last.events[1].ForcedExit = TRUE

\* C10 witness of a graceful completion.
C10_RefundWitness ==
    /\ last.op = "CompleteStorageProviderExit" /\ last.err = "OK"
    /\ last.to = "fund" /\ bank.fund[last.id] = InitFunds + SpDeposit(last.id)

\* C10 witness of a completion refused because a group is still assigned.
C10_NotExitableWitness ==
    /\ last.op = "CompleteStorageProviderExit" /\ last.err = "ErrSPCanNotExit"
    /\ IsExiting(sps[last.id])

\* C11: StorageProviderExit succeeds only for an SP whose status is IN_SERVICE;
\* it then sets the status to GRACEFUL_EXITING and emits exactly one exit
\* event; for an SP in any other status it fails and changes no SP.
C11_ExitOnlyInService ==
    [][last'.op = "StorageProviderExit" =>
         /\ last'.err = "OK" =>
                /\ last'.id \in DOMAIN sps
                /\ sps[last'.id].status = STATUS_IN_SERVICE
                /\ sps' = [sps EXCEPT ![last'.id].status = STATUS_GRACEFUL_EXITING]
                /\ Len(last'.events) = 1
                /\ last'.events[1].type = "EventStorageProviderExit"
         /\ (last'.id \in DOMAIN sps /\ sps[last'.id].status # STATUS_IN_SERVICE) =>
                (last'.err # "OK" /\ sps' = sps /\ last'.events = <<>>)]_vars

\* C11 witness: an in-service SP entered GRACEFUL_EXITING with one event.
C11_Witness ==
    /\ last.op = "StorageProviderExit" /\ last.err = "OK"
    /\ sps[last.id].status = STATUS_GRACEFUL_EXITING
    /\ Len(last.events) = 1

\* C11 witness of the refusal: an SP in maintenance asked to exit and was refused.
C11_MaintenanceRefused ==
    /\ last.op = "StorageProviderExit" /\ last.err = "ErrStorageProviderExitFailed"
    /\ sps[last.id].status = STATUS_IN_MAINTENANCE

\* The group a withdraw request names has negative available tokens.
NegativeAvailable(req) ==
    req.gvgId \in DOMAIN gvgs /\ GetAvailableStakingTokens(gvgs[req.gvgId]) < 0

\* A withdraw request that left every balance and group alone and emitted nothing.
WithdrawHadNoEffect == last'.err # "OK" /\ bank' = bank /\ gvgs' = gvgs /\ last'.events = <<>>

\* C12 (as claimed): a Withdraw naming a group whose available tokens are
\* negative always aborts fatally, moves no tokens and emits no event.
C12_NegativeAlwaysFatal ==
    [][last'.op = "Withdraw" =>
         \A req \in TokenReqs : (Withdraw(req) /\ NegativeAvailable(req)) =>
             (last'.err = "panic" /\ WithdrawHadNoEffect)]_vars

\* C12 (amended): a Withdraw naming a group whose available tokens are negative
\* never succeeds, moves no tokens and emits no event; it aborts fatally when
\* the caller is the primary SP of the group and the denom is the deposit
\* denom, and returns the error of the earlier check otherwise.
C12_NegativeNeverSucceeds ==
    [][last'.op = "Withdraw" =>
         \A req \in TokenReqs : (Withdraw(req) /\ NegativeAvailable(req)) =>
             /\ WithdrawHadNoEffect
             /\ last'.err = "panic" <=>
                    (/\ req.addr \in DOMAIN sps
                     /\ req.addr = gvgs[req.gvgId].PrimarySpId
                     /\ req.denom = DepositDenomForGVG)]_vars

\* C12 witness: the primary SP asked to withdraw from a group whose available
\* tokens are negative and the handler aborted.
C12_Witness ==
    /\ last.op = "Withdraw" /\ last.err = "panic"
    /\ last.id \in DOMAIN gvgs /\ GetAvailableStakingTokens(gvgs[last.id]) < 0
    /\ last.by = gvgs[last.id].PrimarySpId

\* A withdraw request that succeeded and moved w tokens from the module pool
\* to the funding account of the caller.
WithdrawTransferred(req, w) ==
    /\ last'.err = "OK"
    /\ bank'.vg = bank.vg - w
    /\ bank'.fund = [bank.fund EXCEPT ![req.addr] = @ + w]

\* C13: a Withdraw of the deposit denom by the primary SP of a group with
\* available tokens a >= 0 moves exactly a for amount 0, exactly r for
\* 0 < r <= a, and fails with ErrWithdrawAmountTooLarge moving nothing for
\* r > a; a Withdraw by a registered SP that is not the primary fails and moves
\* nothing; no Withdraw moves more than the available tokens.
C13_WithdrawAmounts ==
    [][last'.op = "Withdraw" =>
         \A req \in TokenReqs :
             (/\ Withdraw(req)
              /\ req.addr \in DOMAIN sps
              /\ req.gvgId \in DOMAIN gvgs
              /\ req.denom = DepositDenomForGVG) =>
                 LET a == GetAvailableStakingTokens(gvgs[req.gvgId]) IN
                 /\ (req.addr = gvgs[req.gvgId].PrimarySpId /\ a >= 0) =>
                        /\ req.amount = 0 => WithdrawTransferred(req, a)
                        /\ (0 < req.amount /\ req.amount <= a) =>
                               WithdrawTransferred(req, req.amount)
                        /\ req.amount > a =>
                               (last'.err = "ErrWithdrawAmountTooLarge" /\ bank' = bank)
                 /\ req.addr # gvgs[req.gvgId].PrimarySpId =>
                        (last'.err # "OK" /\ bank' = bank)
                 /\ bank.vg - bank'.vg <= (IF a >= 0 THEN a ELSE 0)]_vars

\* C14: a successful Deposit of d on an existing group raises the stored
\* TotalDeposit of that group and the module pool by d and lowers the funding
\* account of the caller SP by d; a Deposit with another denom, a missing
\* group or an unknown SP fails; a failed Deposit changes no group and no balance.
C14_DepositFrame ==
    [][last'.op = "Deposit" =>
         \A req \in TokenReqs : Deposit(req) =>
             /\ (\/ req.denom # DepositDenomForGVG
                 \/ req.gvgId \notin DOMAIN gvgs
                 \/ req.addr \notin DOMAIN sps) => last'.err # "OK"
             /\ IF last'.err = "OK"
                THEN /\ gvgs' = [gvgs EXCEPT ![req.gvgId].TotalDeposit = @ + req.amount]
                     /\ bank' = [bank EXCEPT !.vg = @ + req.amount,
                                             !.fund[req.addr] = @ - req.amount]
                ELSE gvgs' = gvgs /\ bank' = bank]_vars

\* C14 witness: a deposit of a positive amount was escrowed and recorded.
C14_Witness ==
    /\ last.op = "Deposit" /\ last.err = "OK" /\ last.amount > 0
    /\ gvgs[last.id].TotalDeposit >= last.amount
    /\ bank.vg >= last.amount

\* C14 witness of the refusal: a deposit in another denom was refused.
C14_DenomRefused == last.op = "Deposit" /\ last.err = "ErrInvalidDenom"

\* The successor of a swap-out request exists, is in service and made the
\* approval over this request.
SuccessorConsents(msg) ==
    /\ msg.successorSpId \in DOMAIN sps
    /\ sps[msg.successorSpId].status = STATUS_IN_SERVICE
    /\ msg.approval = [signer |-> msg.successorSpId, signed |-> "request"]

\* C15: SwapOut records a pending swap-out and emits its event only if the
\* successor SP exists, is in service and its approval over the request
\* verifies; when one of the three fails the request fails, emits nothing and
\* creates or modifies no swap-out record.
C15_SwapOutNeedsConsent ==
    [][last'.op = "SwapOut" =>
         /\ last'.err = "OK" =>
                (SuccessorConsents(last'.id) /\ Len(last'.events) = 1)
         /\ (swapOutInfos' # swapOutInfos \/ last'.events # <<>>) =>
                SuccessorConsents(last'.id)
         /\ ~SuccessorConsents(last'.id) =>
                (last'.err # "OK" /\ swapOutInfos' = swapOutInfos)]_vars

\* C15 witness: a swap-out with the approval of an in-service successor was recorded.
C15_Witness ==
    /\ last.op = "SwapOut" /\ last.err = "OK"
    /\ Len(last.events) = 1
    /\ \E r \in swapOutInfos : r.spId = last.by /\ r.successorSpId = last.id.successorSpId

\* C15 witness of the refusal: an approval that does not verify was turned away.
C15_ApprovalRefused == last.op = "SwapOut" /\ last.err = "ErrInvalidSignature"

\* C15 witness of the refusal: a successor that is not in service was turned away.
C15_SuccessorNotInService ==
    last.op = "SwapOut" /\ last.err = "ErrStorageProviderNotInService"

\* The keys (family id, group id, incumbent SP) a swap-out request names.
SwapOutKeys(msg) ==
    IF msg.scope.familyId # NoSpecifiedFamilyId
    THEN {<<msg.scope.familyId, 0, msg.sp>>}
    ELSE {<<NoSpecifiedFamilyId, g, msg.sp>> : g \in msg.scope.gvgIds}

\* The pending swap-outs recorded under a key.
SwapOutsUnder(infos, key) == {r \in infos : <<r.familyId, r.gvgId, r.spId>> = key}

\* No scope has two pending swap-outs.
OneSwapOutPerScope ==
    \A r1, r2 \in swapOutInfos :
        <<r1.familyId, r1.gvgId, r1.spId>> = <<r2.familyId, r2.gvgId, r2.spId>> => r1 = r2

\* What completion and cancellation do to the pending swap-outs and the groups.
SwapOutConsumed ==
    /\ (last'.op = "CompleteSwapOut" /\ last'.err = "OK") =>
           /\ \A key \in SwapOutKeys(last'.id) :
                  /\ SwapOutsUnder(swapOutInfos, key) # {}
                  /\ SwapOutsUnder(swapOutInfos', key) = {}
           /\ last'.id.scope.familyId # NoSpecifiedFamilyId =>
                  \E r \in SwapOutsUnder(swapOutInfos,
                                         <<last'.id.scope.familyId, 0, last'.id.sp>>) :
                      /\ families'[r.familyId].PrimarySpId = r.successorSpId
                      /\ \A i \in 1..Len(families'[r.familyId].GlobalVirtualGroupIds) :
                             gvgs'[families'[r.familyId].GlobalVirtualGroupIds[i]].PrimarySpId
                                 = r.successorSpId
    /\ (last'.op = "CompleteSwapOut" /\ last'.err # "OK") =>
           (gvgs' = gvgs /\ families' = families /\ swapOutInfos' = swapOutInfos)
    /\ (last'.op = "CompleteSwapOut"
            /\ \E key \in SwapOutKeys(last'.id) : SwapOutsUnder(swapOutInfos, key) = {}) =>
           last'.err # "OK"
    /\ (last'.op = "CancelSwapOut" /\ last'.err = "OK") =>
           \A key \in SwapOutKeys(last'.id) : SwapOutsUnder(swapOutInfos', key) = {}

\* C16: no swap-out scope (family or group, incumbent SP) ever has two pending
\* records; CompleteSwapOut succeeds only if every key it names has a pending
\* record, and consumes it, so that after a cancellation or a completion a
\* further completion of the scope fails until a new SwapOut is recorded; a
\* family-scope completion leaves the family and each of its member groups
\* with the recorded successor as primary SP.
C16_SwapOutLifecycle == []OneSwapOutPerScope /\ [][SwapOutConsumed]_vars

\* C16 witness: a family-scope swap-out was completed for a family of two groups.
C16_Witness ==
    /\ last.op = "CompleteSwapOut" /\ last.err = "OK"
    /\ last.id.scope.familyId \in DOMAIN families
    /\ Len(families[last.id.scope.familyId].GlobalVirtualGroupIds) = 2
    /\ families[last.id.scope.familyId].PrimarySpId # last.id.sp

\* C16 witness: a completion found no pending swap-out left and failed.
C16_NothingPending ==
    /\ last.op = "CompleteSwapOut" /\ last.err = "ErrSwapOutFailed"
    /\ swapOutInfos = {}
    /\ \E g \in DOMAIN gvgs : gvgs[g].PrimarySpId # families[gvgs[g].FamilyId].PrimarySpId
           \/ last.id.sp \notin Range(gvgs[g].SecondarySpIds)

\* The reservation recorded on the scope of a swap-in request.
ReservationOn(infos, msg) ==
    {r \in infos : r.familyId = msg.scope.familyId /\ r.gvgId = msg.scope.gvgId}

ReservationsOfCaller(infos, msg) ==
    {r \in ReservationOn(infos, msg) : r.successorSpId = msg.sp}

\* C18: a CompleteSwapIn of a reservation whose stored expiration timestamp is
\* in the past fails and changes no group, no family and no reservation; no
\* step other than a successful cancellation or a successful new reservation
\* removes an expired reservation.
C18_ExpiredSwapInBlocked ==
    [][/\ (last'.op = "CompleteSwapIn"
              /\ \E r \in ReservationsOfCaller(swapInInfos, last'.id) :
                     r.expirationTime < blockTime) =>
             /\ last'.err # "OK"
             /\ gvgs' = gvgs /\ families' = families /\ swapInInfos' = swapInInfos
        /\ \A r \in swapInInfos \ swapInInfos' :
               r.expirationTime < blockTime =>
                   (last'.op \in {"CancelSwapIn", "ReserveSwapIn"} /\ last'.err = "OK")]_vars

\* C18 witness: a reservation made with a validity period that had run out was
\* refused at completion and is still recorded.
C18_Witness ==
    /\ last.op = "CompleteSwapIn" /\ last.err = "ErrSwapInExpired"
    /\ \E r \in ReservationsOfCaller(swapInInfos, last.id) :
           r.expirationTime >= 0 /\ r.expirationTime < blockTime

\* C18 witness: a reservation that had not expired was completed.
C18_CompletedInTime ==
    /\ last.op = "CompleteSwapIn" /\ last.err = "OK"
    /\ \E g \in DOMAIN gvgs :
           last.by = gvgs[g].PrimarySpId \/ last.by \in Range(gvgs[g].SecondarySpIds)

\* C18 witness: an expired reservation was replaced by a new one.
C18_ExpiredReplaced ==
    /\ last.op = "ReserveSwapIn" /\ last.err = "OK" /\ blockTime >= 2
    /\ Cardinality(swapInInfos) = 1

\* The number of distributions a Settle made for a group.
TimesSettled(events, g) == Cardinality({i \in 1..Len(events) : events[i].Id = g})

\* A named group is missing, cannot be distributed, or (before Pampas) does
\* not have the caller among its secondary SPs.
SettleMustFail(msg, g) ==
    \/ g \notin DOMAIN gvgs
    \/ g \in msg.undistributable
    \/ (~IsUpgraded("Pampas") /\ msg.sp \notin Range(gvgs[g].SecondarySpIds))

\* C19: a Settle that lists group ids (no family id) settles each distinct
\* listed group exactly once however often the list repeats it; before Pampas
\* it succeeds only if the caller SP is a secondary SP of every listed group;
\* if a listed group is missing, unauthorized or fails distribution the
\* request returns an error and reports no settled group.
C19_SettleGroupList ==
    [][(last'.op = "Settle" /\ last'.id.scope.familyId = NoSpecifiedFamilyId) =>
         LET msg == last'.id
             ids == Range(msg.scope.gvgIds)
         IN  /\ last'.err = "OK" =>
                    /\ \A g \in ids : TimesSettled(last'.events, g) = 1
                    /\ Len(last'.events) = Cardinality(ids)
                    /\ ~IsUpgraded("Pampas") =>
                           (/\ msg.sp \in DOMAIN sps
                            /\ \A g \in ids : msg.sp \in Range(gvgs[g].SecondarySpIds))
             /\ (\E g \in ids : SettleMustFail(msg, g)) =>
                    (last'.err # "OK" /\ last'.events = <<>>)]_vars

\* C19 witness: before Pampas a secondary SP settled a group it listed twice,
\* and the group was settled once.
C19_Witness ==
    /\ last.op = "Settle" /\ last.err = "OK" /\ ~IsUpgraded("Pampas")
    /\ Len(last.id.scope.gvgIds) = 2 /\ last.id.scope.gvgIds[1] = last.id.scope.gvgIds[2]
    /\ Len(last.events) = 1

\* C19 witness: before Pampas a caller that is not a secondary SP was refused.
C19_NotSecondaryRefused ==
    /\ last.op = "Settle" /\ last.err = "ErrSettleFailed" /\ ~IsUpgraded("Pampas")
    /\ last.id.undistributable = {}
    /\ last.id.scope.familyId = NoSpecifiedFamilyId

\* C19 witness: with Pampas a caller that is no SP settled two groups.
C19_AnyCallerAfterPampas ==
    /\ last.op = "Settle" /\ last.err = "OK" /\ IsUpgraded("Pampas")
    /\ last.by = NoAddr /\ Len(last.events) = 2

\* The number of events of one type among the events of an outcome.
EventCount(events, type) == Cardinality({i \in 1..Len(events) : events[i].type = type})

\* C20: a successful CreateGlobalVirtualGroup with the unspecified family id
\* emits exactly one create-group event and exactly one create-family event;
\* a successful one naming an existing family emits exactly one create-group
\* event and no create-family event; a failed one emits neither.
C20_CreateEvents ==
    [][\A req \in PlainCreateReqs :
          CreateGlobalVirtualGroup(req) =>
              LET groupEvents == EventCount(last'.events, "EventCreateGlobalVirtualGroup")
                  familyEvents == EventCount(last'.events, "EventCreateGlobalVirtualGroupFamily")
              IN  /\ Len(last'.events) = groupEvents + familyEvents
                  /\ IF last'.err # "OK" THEN groupEvents = 0 /\ familyEvents = 0
                     ELSE IF req.familyId = NoSpecifiedFamilyId
                     THEN groupEvents = 1 /\ familyEvents = 1
                     ELSE /\ req.familyId \in DOMAIN families
                          /\ groupEvents = 1 /\ familyEvents = 0]_vars

\* C20 witness: a group joined an existing family and one event, the
\* create-group event of that group, was emitted.
C20_Witness ==
    /\ CreateSucceeded
    /\ last.id \in DOMAIN gvgs
    /\ Len(families[gvgs[last.id].FamilyId].GlobalVirtualGroupIds) = 2
    /\ EventCount(last.events, "EventCreateGlobalVirtualGroup") = 1
    /\ EventCount(last.events, "EventCreateGlobalVirtualGroupFamily") = 0

\* C20 witness: a create opened a second family and emitted both events.
C20_FamilyOpened ==
    /\ CreateSucceeded
    /\ Cardinality(DOMAIN families) = 2
    /\ last.events[2] = [type |-> "EventCreateGlobalVirtualGroupFamily",
                         Id |-> gvgs[last.id].FamilyId,
                         PrimarySpId |-> last.by]

\* C20 witness: a refused create emitted nothing.
C20_RefusedSilent ==
    /\ last.op = "CreateGlobalVirtualGroup" /\ last.err = "ErrGVGFamilyNotExist"
    /\ last.events = <<>>

\* Some group of the named family stores exactly the requested secondary list.
ExactDuplicateIn(familyId, requested) ==
    \E g \in Range(families[familyId].GlobalVirtualGroupIds) :
        g \in DOMAIN gvgs /\ gvgs[g].SecondarySpIds = requested

\* C21: with Manchurian active, a create into an existing family is refused
\* as a duplicate only if a group of the family stores a secondary list equal
\* to the requested one (same length, ids and order), a create that repeats a
\* stored list is never accepted, and the guard never aborts on an index out
\* of range.
C21_DuplicateGuard ==
    [][\A req \in AnyCreateReqs :
          (/\ CreateGlobalVirtualGroup(req)
           /\ IsUpgraded("Manchurian")
           /\ req.familyId \in DOMAIN families) =>
              /\ last'.err = "ErrDuplicateGVG" => ExactDuplicateIn(req.familyId, req.secondarySpIds)
              /\ last'.err = "OK" => ~ExactDuplicateIn(req.familyId, req.secondarySpIds)
              /\ last'.err # "panic"]_vars

\* A step taken while SP id is GRACEFUL_EXITING: the SP stays so, or leaves the
\* registry through a completion that refunds its deposit to its own funding
\* address and sends nothing to the governance account, or (if governanceMayForce)
\* is moved to FORCED_EXITING by a forced exit of the governance authority
\* made while fewer SPs are exiting than the cap.
GracefulStep(id, governanceMayForce) ==
    sps[id].status = STATUS_GRACEFUL_EXITING =>
        IF id \notin DOMAIN sps'
        THEN /\ last'.op = "CompleteStorageProviderExit" /\ last'.err = "OK" /\ last'.id = id
             /\ last'.to = "fund"
             /\ bank'.fund[id] = bank.fund[id] + sps[id].totalDeposit
             /\ bank'.gov = bank.gov
        ELSE IF sps'[id].status = STATUS_FORCED_EXITING
        THEN /\ governanceMayForce
             /\ last'.op = "StorageProviderForcedExit" /\ last'.err = "OK" /\ last'.id = id
             /\ last'.by = Authority
             /\ Cardinality(ExitingSPs) < SpConcurrentExitNum
        ELSE sps'[id].status = STATUS_GRACEFUL_EXITING

\* C22 (as claimed): an SP that entered GRACEFUL_EXITING through its own exit
\* request is never moved to FORCED_EXITING, and its completion refunds its
\* deposit to its own funding address and never to the governance account.
C22_NeverForfeited == [][\A id \in DOMAIN sps : GracefulStep(id, FALSE)]_vars

\* C22 (amended): an SP in GRACEFUL_EXITING keeps that status until it is
\* completed, and is then refunded to its own funding address, unless the
\* governance authority forces it out in between, which succeeds only while
\* fewer SPs are exiting than the cap; no other request moves it to FORCED_EXITING.
C22_ForfeitOnlyByGovernance == [][\A id \in DOMAIN sps : GracefulStep(id, TRUE)]_vars

\* C22 witness: with a cap that leaves room for a forced exit, and another SP
\* forced out, an SP completed its own exit and was refunded.
C22_Witness ==
    /\ last.op = "CompleteStorageProviderExit" /\ last.err = "OK" /\ last.to = "fund"
    /\ SpConcurrentExitNum >= 2
    /\ bank.fund[last.id] = InitFunds + SpDeposit(last.id)
    /\ bank.gov = 0
    /\ \E id \in DOMAIN sps : sps[id].status = STATUS_FORCED_EXITING

\* C22 witness: both SPs left, one of them forfeiting its deposit, under a cap
\* of two.
C22_ForfeitedUnderCapTwo ==
    /\ sps = <<>> /\ SpConcurrentExitNum = 2
    /\ \E id \in SpIds : bank.gov = SpDeposit(id)

\* C23: Settle over a list of group ids is deterministic: in one state and for
\* one request, the result and the set of groups settled before it returns are
\* the same in whatever order the deduplicated ids are visited.
C23_SettleDeterministic ==
    [][(/\ last'.op = "Settle"
        /\ last'.id.scope.familyId = NoSpecifiedFamilyId
        /\ last'.err # "ErrStorageProviderNotFound") =>
           /\ last'.err \in {o.err : o \in SettleOutcomes(last'.id)}
           /\ \A o1, o2 \in SettleOutcomes(last'.id) :
                  o1.err = o2.err /\ o1.settled = o2.settled]_vars

====
